---------------------------- MODULE Spec2Model ----------------------------
(***************************************************************************)
(* Model of src/integration.ipynb: the midpoint-rule integrator            *)
(* integrate_midpoint (lines 113-122), the cells that call it (line 153    *)
(* and lines 193-197), and the convergence check built on it.              *)
(*                                                                         *)
(* Numbers are exact rationals <<num, den>> (den > 0, lowest terms),       *)
(* extended with the three IEEE specials a Python/numpy float can hold:    *)
(* <<1,0>> = +inf, <<-1,0>> = -inf, <<0,0>> = NaN.  A run is interpreted    *)
(* either in exact arithmetic or in binary floating point that rounds the  *)
(* result of every operation to the nearest value with Precision           *)
(* significant bits, ties to even (IEEE 754 with a short significand and   *)
(* an unbounded exponent).  Signed zeros are not modelled.                 *)
(***************************************************************************)
EXTENDS Integers, Sequences, FiniteSets, TLC

\* ------------------------------------------------------------------ bounds
\* largest sub-interval count n passed to integrate_midpoint
MaxN == 3
\* integer bounds a, b range over -MaxBound .. MaxBound (plus inf and NaN)
MaxBound == 1
\* polynomial integrands have coefficients in 0 .. MaxCoef
MaxCoef == 1
\* significant bits of a float (53 for the doubles of the code)
Precision == 4
\* largest sub-interval count of two interleaved calls
MaxParN == 2

\* TRUE when the run is interpreted in exact arithmetic, FALSE in floats
VARIABLE exactArith

\* -------------------------------------------------------------- arithmetic
Abs(i) == IF i < 0 THEN -i ELSE i

Sign(i) == IF i < 0 THEN -1 ELSE IF i > 0 THEN 1 ELSE 0

RECURSIVE GCD(_, _)
GCD(p, q) == IF q = 0 THEN p ELSE GCD(q, p % q)

\* the float with value num/den; den = 0 gives inf, -inf or NaN
Rat(num, den) ==
    IF den = 0 THEN <<Sign(num), 0>>
    ELSE LET g == GCD(Abs(num), Abs(den))
         IN  <<(Sign(den) * num) \div g, Abs(den) \div g>>

Zero == <<0, 1>>
Inf  == <<1, 0>>
NaN  == <<0, 0>>

IsNaN(p)    == p = NaN
IsFinite(p) == p[2] # 0

Neg(p) == <<-p[1], p[2]>>

RECURSIVE Pow2(_)
Pow2(k) == IF k <= 0 THEN 1 ELSE 2 * Pow2(k - 1)

\* the integer nearest to num/den, ties to even
RoundInt(num, den) ==
    LET m == num \div den
        r == num % den
    IN  IF 2 * r > den \/ (2 * r = den /\ m % 2 = 1) THEN m + 1 ELSE m

RECURSIVE RoundScaled(_, _, _, _)
\* (num/den) * (up/down) with num/den > 0 rounded to Precision significant
\* bits; up and down are the powers of two taken out of num/den so far
RoundScaled(num, den, up, down) ==
    IF num < Pow2(Precision - 1) * den THEN RoundScaled(2 * num, den, up, 2 * down)
    ELSE IF num >= Pow2(Precision) * den THEN RoundScaled(num, 2 * den, 2 * up, down)
    ELSE Rat(RoundInt(num, den) * up, down)

\* p rounded to the nearest float, ties to even
Round(p) ==
    IF ~IsFinite(p) \/ p[1] = 0 THEN p
    ELSE IF p[1] < 0 THEN Neg(RoundScaled(-p[1], p[2], 1, 1))
    ELSE RoundScaled(p[1], p[2], 1, 1)

\* the stored result of an operation whose exact value is p
Rnd(p) == IF exactArith THEN p ELSE Round(p)

\* exact sum: inf + (-inf) = NaN, NaN + anything = NaN
XAdd(p, q) ==
    IF IsFinite(p) /\ IsFinite(q)
    THEN LET g == GCD(p[2], q[2])
         IN  Rat(p[1] * (q[2] \div g) + q[1] * (p[2] \div g),
                 (p[2] \div g) * q[2])
    ELSE IF IsNaN(p) \/ IsNaN(q) THEN NaN
    ELSE IF IsFinite(p) THEN q
    ELSE IF IsFinite(q) THEN p
    ELSE IF p = q THEN p ELSE NaN

XSub(p, q) == XAdd(p, Neg(q))

\* exact product: 0 * inf = NaN
XMul(p, q) == Rat(p[1] * q[1], p[2] * q[2])

\* exact quotient as numpy gives it: never raises, x/0 is inf or NaN
XDiv(p, q) == XMul(p, Rat(q[2], q[1]))

\* the float operations +, -, *, /
Add(p, q) == Rnd(XAdd(p, q))
Sub(p, q) == Rnd(XSub(p, q))
Mul(p, q) == Rnd(XMul(p, q))
Div(p, q) == Rnd(XDiv(p, q))

AbsVal(p) == <<Abs(p[1]), p[2]>>

\* p < q as floats: false when either side is NaN
Less(p, q) ==
    /\ ~IsNaN(p) /\ ~IsNaN(q)
    /\ p # q
    /\ IF IsFinite(p) /\ IsFinite(q) THEN p[1] * q[2] < q[1] * p[2]
       ELSE IF ~IsFinite(p) THEN p[1] < 0
       ELSE q[1] > 0

\* Python's ==: NaN equals nothing
PyEq(p, q) == ~IsNaN(p) /\ ~IsNaN(q) /\ p = q


\* -------------------------------------------------------------- integrands
\* An integrand f is the polynomial c[1] + c[2]*x + c[3]*x^2, except that it
\* raises at the points of pole and returns NaN at the points of undef.
SingularPoints == {Rat(0, 1), Rat(1, 2)}

Polynomials ==
    {[c |-> <<c0, c1, c2>>, pole |-> {}, undef |-> {}] :
        c0 \in 0..MaxCoef, c1 \in 0..MaxCoef, c2 \in 0..MaxCoef}

Integrands ==
    Polynomials
    \cup {[c |-> <<1, 1, 0>>, pole |-> {p}, undef |-> {}] : p \in SingularPoints}
    \cup {[c |-> <<1, 1, 0>>, pole |-> {}, undef |-> {p}] : p \in SingularPoints}

\* value of the polynomial part; a term with coefficient 0 is absent
Poly(c, x) ==
    Add(Add(IF c[3] = 0 THEN Zero ELSE Mul(Rat(c[3], 1), Mul(x, x)),
            IF c[2] = 0 THEN Zero ELSE Mul(Rat(c[2], 1), x)),
        Rat(c[1], 1))

FRaises(g, x) == x \in g.pole

FValue(g, x) == IF x \in g.undef THEN NaN ELSE Poly(g.c, x)

\* ------------------------------------------------------------- exceptions
NoExc == [type |-> "none", origin |-> "none", at |-> Zero]

\* the exception the integrand raises at x
FExc(x) == [type |-> "IntegrandError", origin |-> "f", at |-> x]

\* np.linspace refuses a negative number of samples
LinspaceExc == [type |-> "ValueError", origin |-> "linspace", at |-> Zero]

\* (b-a)/n with n = 0
DivExc == [type |-> "ZeroDivisionError", origin |-> "dx", at |-> Zero]

\* ---------------------------------------------------------------- linspace
\* a linspace that leaves the endpoint out: step = (stop-start)/num
LinspaceNoEndpoint(start, stop, num) ==
    LET step == Div(Sub(stop, start), Rat(num, 1))
    IN  [i \in 1..num |-> Add(Mul(Rat(i - 1, 1), step), start)]

\* np.linspace(start, stop, num) for num >= 0: arange(num)*step + start with
\* step = (stop-start)/(num-1), the last sample set to stop
Linspace(start, stop, num) ==
    LET delta == Sub(stop, start)
        div   == num - 1
        step  == IF div > 0 THEN Div(delta, Rat(div, 1)) ELSE delta
    IN  [i \in 1..num |->
            IF num > 1 /\ i = num THEN stop
            ELSE Add(Mul(Rat(i - 1, 1), step), start)]

\* the left endpoint taken for the midpoint
MidpointLeft(xs, jj) == xs[jj + 1]

\* the right endpoint taken for the midpoint
MidpointRight(xs, jj) == xs[jj + 2]

\* the midpoint of sub-interval j (0-based), line 119
Midpoint(xs, jj) == Div(Add(xs[jj + 1], xs[jj + 2]), Rat(2, 1))

\* the term stored in place of the sum so far
AccumulateOverwrite(acc, fx, width) == Mul(fx, width)

\* the term added without its width
AccumulateNoWidth(acc, fx, width) == Add(acc, fx)

\* one more term of the sum, line 120
Accumulate(acc, fx, width) == Add(acc, Mul(fx, width))

\* the exception swallowed and the partial sum returned
OnIntegrandExcSwallow(e, acc) == [kind |-> "return", exc |-> NoExc, val |-> acc]

\* the width taken positive whatever the order of the bounds
WidthAbs(lo, hi, cnt) == AbsVal(Div(Sub(hi, lo), Rat(cnt, 1)))

\* the sub-interval width, line 115, for cnt # 0
Width(lo, hi, cnt) == Div(Sub(hi, lo), Rat(cnt, 1))

\* what integrate_midpoint does with an exception of the integrand: there is
\* no try/except around line 120, so the call ends with that exception
OnIntegrandExc(e, acc) == [kind |-> "raise", exc |-> e, val |-> Zero]

\* where a call keeps its accumulator if integral were a global name
AccSlotShared(i) == 1

\* line 117 binds integral inside the def: it is a local of the call, so each
\* call i has a cell of its own for it
AccSlot(i) == i

\* ------------------------------------------------------------------ state
VARIABLES
    frames,          \* two interleaved calls: position, arguments and locals
    store,           \* the cells that hold the accumulators of these calls
    writers,         \* for each cell, the calls that have written it
    given,           \* the arguments the interleaved calls were entered with
    cell,            \* which cell runs: "none", "call", "orientation", "sweep"
    cpc,             \* position of the cell
    pending,         \* calls of the cell not yet started
    integrals,       \* values returned by the calls completed so far
    trace,           \* for each completed call, the points f was evaluated at
    raised,          \* the exception that ended the cell, or NoExc
    nvals,           \* sub-interval counts of the convergence check
    exact,           \* known exact value of the integral
    error,           \* absolute errors, line 195
    powerlaw_index,  \* fitted slope, line 197
    pc,              \* position inside integrate_midpoint
    f, a, b, n,      \* arguments of the current call
    x, dx, integral, j,  \* its locals
    evals,           \* points at which the current call evaluated f
    ret              \* how the current call ended

caller == <<cell, cpc, pending, integrals, trace, raised, nvals, exact, error,
            powerlaw_index>>
args   == <<f, a, b, n>>
locals == <<x, dx, integral, j>>
par    == <<frames, store, writers, given>>
vars   == <<exactArith, caller, pc, args, locals, evals, ret, par>>

NoRet == [kind |-> "none", exc |-> NoExc, val |-> Zero]

FiniteBounds == {Rat(k, 1) : k \in -MaxBound..MaxBound}
Bounds       == FiniteBounds \cup {Inf, NaN}
Counts       == -2..MaxN

\* the float that follows 1: with 1 it bounds an interval that holds no float
NextAfterOne == Rat(Pow2(Precision - 1) + 1, Pow2(Precision - 1))
CallBounds   ==
    (Bounds \X Bounds)
    \cup {<<Rat(1, 1), NextAfterOne>>, <<NextAfterOne, Rat(1, 1)>>}

Args(g, lo, hi, cnt) == [f |-> g, a |-> lo, b |-> hi, n |-> cnt]

Calls == 1..2

NoArgs == Args([c |-> <<0, 0, 0>>, pole |-> {}, undef |-> {}], Zero, Zero, 0)

\* the frame of a call entered with arguments r
Frame(r, at) ==
    [pc |-> at, f |-> r.f, a |-> r.a, b |-> r.b, n |-> r.n,
     x |-> <<>>, dx |-> Zero, j |-> 0, sum |-> Zero, evals |-> <<>>,
     ret |-> NoRet]

Init ==
    /\ exactArith \in BOOLEAN
    /\ frames = [i \in Calls |-> Frame(NoArgs, "none")]
    /\ store = [s \in Calls |-> Zero]
    /\ writers = [s \in Calls |-> {}]
    /\ given = [i \in Calls |-> NoArgs]
    /\ cell = "none" /\ cpc = "idle"
    /\ pending = <<>> /\ integrals = <<>> /\ trace = <<>>
    /\ raised = NoExc
    /\ nvals = <<>> /\ exact = Zero /\ error = <<>> /\ powerlaw_index = Zero
    /\ pc = "none"
    /\ f = [c |-> <<0, 0, 0>>, pole |-> {}, undef |-> {}]
    /\ a = Zero /\ b = Zero /\ n = 0
    /\ x = <<>> /\ dx = Zero /\ integral = Zero /\ j = 0
    /\ evals = <<>>
    /\ ret = NoRet

\* entering integrate_midpoint with arguments r
Enter(r) ==
    /\ pc' = "linspace"
    /\ f' = r.f /\ a' = r.a /\ b' = r.b /\ n' = r.n
    /\ x' = <<>> /\ dx' = Zero /\ integral' = Zero /\ j' = 0
    /\ evals' = <<>>
    /\ ret' = NoRet

\* ------------------------------------------------------ integrate_midpoint
\* line 114: x = np.linspace(a, b, num=n+1)
LinspaceStep ==
    /\ pc = "linspace"
    /\ IF n + 1 < 0
       THEN /\ pc' = "raised"
            /\ ret' = [kind |-> "raise", exc |-> LinspaceExc, val |-> Zero]
            /\ x' = x
       ELSE /\ pc' = "dx"
            /\ x' = Linspace(a, b, n + 1)
            /\ ret' = ret
    /\ UNCHANGED <<par, exactArith, caller, args, dx, integral, j, evals>>

\* line 115: dx = (b-a)/n
WidthStep ==
    /\ pc = "dx"
    /\ IF n = 0
       THEN /\ pc' = "raised"
            /\ ret' = [kind |-> "raise", exc |-> DivExc, val |-> Zero]
            /\ dx' = dx
       ELSE /\ pc' = "init"
            /\ dx' = Width(a, b, n)
            /\ ret' = ret
    /\ UNCHANGED <<par, exactArith, caller, args, x, integral, j, evals>>

\* line 117: integral = 0
InitStep ==
    /\ pc = "init"
    /\ integral' = Zero
    /\ j' = 0
    /\ pc' = "loop"
    /\ UNCHANGED <<par, exactArith, caller, args, x, dx, evals, ret>>

\* lines 118-120: one iteration of for j in range(n)
LoopStep ==
    /\ pc = "loop"
    /\ j < n
    /\ LET xmid == Midpoint(x, j)
       IN  /\ evals' = Append(evals, xmid)
           /\ IF FRaises(f, xmid)
              THEN /\ ret' = OnIntegrandExc(FExc(xmid), integral)
                   /\ pc' = IF ret'.kind = "raise" THEN "raised" ELSE "returned"
                   /\ UNCHANGED <<integral, j>>
              ELSE /\ integral' = Accumulate(integral, FValue(f, xmid), dx)
                   /\ j' = j + 1
                   /\ UNCHANGED <<pc, ret>>
    /\ UNCHANGED <<par, exactArith, caller, args, x, dx>>

\* line 122: return integral, once range(n) is exhausted
ReturnStep ==
    /\ pc = "loop"
    /\ j >= n
    /\ pc' = "returned"
    /\ ret' = [kind |-> "return", exc |-> NoExc, val |-> integral]
    /\ UNCHANGED <<par, exactArith, caller, args, locals, evals>>

\* ------------------------------------------------------- convergence check
RECURSIVE LogPos(_, _)
\* logarithm of num/den > 0: exact at the powers of two, linear in between
LogPos(num, den) ==
    IF num >= 2 * den THEN Add(LogPos(num, 2 * den), Rat(1, 1))
    ELSE IF num < den THEN Sub(LogPos(2 * num, den), Rat(1, 1))
    ELSE Rat(num - den, den)

\* np.log: log(0) = -inf, log of a negative number or of NaN is NaN
Log(p) ==
    IF IsNaN(p) \/ p[1] < 0 THEN NaN
    ELSE IF p = Zero THEN Neg(Inf)
    ELSE IF p = Inf THEN Inf
    ELSE LogPos(p[1], p[2])

LogAll(s) == [i \in 1..Len(s) |-> Log(s[i])]

RECURSIVE SumSeq(_)
SumSeq(s) == IF s = <<>> THEN Zero ELSE Add(Head(s), SumSeq(Tail(s)))

\* np.polyfit(xs, ys, 1)[0]: the slope of the least-squares line
PolyfitSlope(xs, ys) ==
    LET cnt == Rat(Len(xs), 1)
        sx  == SumSeq(xs)
        sy  == SumSeq(ys)
        sxy == SumSeq([i \in 1..Len(xs) |-> Mul(xs[i], ys[i])])
        sxx == SumSeq([i \in 1..Len(xs) |-> Mul(xs[i], xs[i])])
    IN  Div(Sub(Mul(cnt, sxy), Mul(sx, sy)), Sub(Mul(cnt, sxx), Mul(sx, sx)))

\* the errors without the absolute value
SignedErrors(ex, vals) == [i \in 1..Len(vals) |-> Sub(ex, vals[i])]

\* line 195: error = np.abs(2 - integrals)
AbsErrors(ex, vals) == [i \in 1..Len(vals) |-> AbsVal(Sub(ex, vals[i]))]

RECURSIVE Usable(_, _)
\* the indices from i on of the errors that have a finite logarithm
Usable(errs, i) ==
    IF i > Len(errs) THEN <<>>
    ELSE (IF IsFinite(Log(errs[i])) THEN <<i>> ELSE <<>>) \o Usable(errs, i + 1)

\* the fit with the samples of zero or non-finite error left out
PowerLawMasked(ns, errs) ==
    LET idx == Usable(errs, 1)
    IN  PolyfitSlope(LogAll([k \in 1..Len(idx) |-> Rat(ns[idx[k]], 1)]),
                     LogAll([k \in 1..Len(idx) |-> errs[idx[k]]]))

\* line 197: every sample enters the fit, whatever its error
PowerLaw(ns, errs) ==
    PolyfitSlope(LogAll([i \in 1..Len(ns) |-> Rat(ns[i], 1)]), LogAll(errs))

\* the closed-form value of the integral of the polynomial part of g
ExactIntegral(g, lo, hi) ==
    LET d1 == XSub(hi, lo)
        d2 == XSub(XMul(hi, hi), XMul(lo, lo))
        d3 == XSub(XMul(hi, XMul(hi, hi)), XMul(lo, XMul(lo, lo)))
    IN  XAdd(XAdd(XMul(Rat(g.c[1], 1), d1), XMul(Rat(g.c[2], 2), d2)),
             XMul(Rat(g.c[3], 3), d3))

RECURSIVE Arange(_, _, _)
\* np.arange(start, stop, step) for step > 0
Arange(start, stop, step) ==
    IF start >= stop THEN <<>>
    ELSE <<start>> \o Arange(start + step, stop, step)

\* line 193: nvals = np.arange(10, 1010, 10), the counts s, 2s, 3s, ... up to
\* MaxN, for every s that gives at least two of them
SweepCounts ==
    {ns \in {Arange(s, MaxN + 1, s) : s \in 1..MaxN} : Len(ns) >= 2}

\* ------------------------------------------------------------------ cells
StartCell(kind, first, rest) ==
    /\ cell' = kind
    /\ cpc' = "calling"
    /\ pending' = rest
    /\ Enter(first)
    /\ UNCHANGED <<par, exactArith, integrals, trace, raised, error, powerlaw_index>>

\* line 153: one call of integrate_midpoint
RunCall ==
    /\ cpc = "idle"
    /\ \E g \in Integrands, ab \in CallBounds, cnt \in Counts :
        /\ StartCell("call", Args(g, ab[1], ab[2], cnt), <<>>)
        /\ UNCHANGED <<nvals, exact>>

\* integrate_midpoint(f, a, b, n) == -integrate_midpoint(f, b, a, n)
RunOrientation ==
    /\ cpc = "idle"
    /\ \E g \in Integrands, lo \in Bounds, hi \in Bounds, cnt \in Counts :
        /\ StartCell("orientation", Args(g, lo, hi, cnt), <<Args(g, hi, lo, cnt)>>)
        /\ UNCHANGED <<nvals, exact>>

\* lines 193-194: one call per n in nvals, in order
RunSweep ==
    /\ cpc = "idle"
    /\ \E g \in Integrands, lo \in FiniteBounds, hi \in FiniteBounds,
          ns \in SweepCounts :
        \E ex \in {ExactIntegral(g, lo, hi), Zero} :
            /\ nvals' = ns
            /\ exact' = Rnd(ex)
            /\ StartCell("sweep", Args(g, lo, hi, ns[1]),
                         [i \in 1..(Len(ns) - 1) |-> Args(g, lo, hi, ns[i + 1])])

\* the call returned: its value joins integrals and the next call starts
Receive ==
    /\ cpc = "calling"
    /\ pc = "returned"
    /\ integrals' = Append(integrals, ret.val)
    /\ trace' = Append(trace, evals)
    /\ IF pending # <<>>
       THEN /\ Enter(Head(pending))
            /\ pending' = Tail(pending)
            /\ cpc' = cpc
       ELSE /\ pc' = "none"
            /\ cpc' = IF cell = "sweep" THEN "error" ELSE "done"
            /\ UNCHANGED <<pending, args, locals, evals, ret>>
    /\ UNCHANGED <<par, exactArith, cell, raised, nvals, exact, error, powerlaw_index>>

\* the call raised: nothing in the cells catches it
Propagate ==
    /\ cpc = "calling"
    /\ pc = "raised"
    /\ cpc' = "failed"
    /\ raised' = ret.exc
    /\ pc' = "none"
    /\ UNCHANGED <<par, exactArith, cell, pending, integrals, trace, nvals, exact, error,
                   powerlaw_index, args, locals, evals, ret>>

\* line 195
ErrorStep ==
    /\ cpc = "error"
    /\ error' = AbsErrors(exact, integrals)
    /\ cpc' = "fit"
    /\ UNCHANGED <<par, exactArith, cell, pending, integrals, trace, raised, nvals, exact,
                   powerlaw_index, pc, args, locals, evals, ret>>

\* line 197
FitStep ==
    /\ cpc = "fit"
    /\ powerlaw_index' = PowerLaw(nvals, error)
    /\ cpc' = "done"
    /\ UNCHANGED <<par, exactArith, cell, pending, integrals, trace, raised, nvals, exact,
                   error, pc, args, locals, evals, ret>>

Next ==
    \/ RunCall
    \/ RunOrientation
    \/ RunSweep
    \/ LinspaceStep
    \/ WidthStep
    \/ InitStep
    \/ LoopStep
    \/ ReturnStep
    \/ Receive
    \/ Propagate
    \/ ErrorStep
    \/ FitStep

Spec == Init /\ [][Next]_vars

\* ------------------------------------------ two calls interleaved by steps
\* the arguments of the interleaved calls
ParIntegrands == {g \in Integrands : g.c = <<1, 1, 0>> /\ g.undef = {}}
ParBounds ==
    {<<Rat(0, 1), Rat(1, 1)>>, <<Rat(1, 1), Rat(-1, 1)>>, <<Inf, Rat(0, 1)>>}
ParCounts == -2..MaxParN
ParInputs ==
    {Args(g, ab[1], ab[2], cnt) :
        g \in ParIntegrands, ab \in ParBounds, cnt \in ParCounts}

Raise(e) == [kind |-> "raise", exc |-> e, val |-> Zero]

\* line 113: both calls are entered, each with its own arguments
ParStart ==
    /\ cpc = "idle"
    /\ \A i \in Calls : frames[i].pc = "none"
    /\ \E r \in [Calls -> ParInputs] :
        /\ frames' = [i \in Calls |-> Frame(r[i], "linspace")]
        /\ given' = r
    /\ UNCHANGED <<exactArith, caller, pc, args, locals, evals, ret, store,
                   writers>>

\* call i moves to frame fr; the accumulators stay as they are
ParMove(i, fr) ==
    /\ frames' = [frames EXCEPT ![i] = fr]
    /\ UNCHANGED <<exactArith, caller, pc, args, locals, evals, ret, store,
                   writers, given>>

\* call i moves to frame fr and writes v to its accumulator
ParWrite(i, fr, v) ==
    /\ frames' = [frames EXCEPT ![i] = fr]
    /\ store' = [store EXCEPT ![AccSlot(i)] = v]
    /\ writers' = [writers EXCEPT ![AccSlot(i)] = @ \cup {i}]
    /\ UNCHANGED <<exactArith, caller, pc, args, locals, evals, ret, given>>

\* line 114 in call i
ParLinspace(i) ==
    LET fr == frames[i]
    IN  /\ fr.pc = "linspace"
        /\ ParMove(i, IF fr.n + 1 < 0
                      THEN [fr EXCEPT !.pc = "raised", !.ret = Raise(LinspaceExc)]
                      ELSE [fr EXCEPT !.pc = "dx",
                                      !.x = Linspace(fr.a, fr.b, fr.n + 1)])

\* line 115 in call i
ParWidth(i) ==
    LET fr == frames[i]
    IN  /\ fr.pc = "dx"
        /\ ParMove(i, IF fr.n = 0
                      THEN [fr EXCEPT !.pc = "raised", !.ret = Raise(DivExc)]
                      ELSE [fr EXCEPT !.pc = "init",
                                      !.dx = Width(fr.a, fr.b, fr.n)])

\* line 117 in call i
ParInit(i) ==
    LET fr == frames[i]
    IN  /\ fr.pc = "init"
        /\ ParWrite(i, [fr EXCEPT !.pc = "loop", !.j = 0], Zero)

\* lines 118-120 in call i, up to the new value of integral: the accumulator
\* is read, f is evaluated and the sum is formed
ParTerm(i) ==
    LET fr   == frames[i]
        xmid == Midpoint(fr.x, fr.j)
    IN  /\ fr.pc = "loop"
        /\ fr.j < fr.n
        /\ ParMove(i,
             IF FRaises(fr.f, xmid)
             THEN [fr EXCEPT !.evals = Append(@, xmid),
                             !.ret = OnIntegrandExc(FExc(xmid), store[AccSlot(i)]),
                             !.pc = "raised"]
             ELSE [fr EXCEPT !.evals = Append(@, xmid),
                             !.sum = Accumulate(store[AccSlot(i)],
                                                FValue(fr.f, xmid), fr.dx),
                             !.pc = "store"])

\* line 120 in call i: the new value is stored in integral
ParStore(i) ==
    LET fr == frames[i]
    IN  /\ fr.pc = "store"
        /\ ParWrite(i, [fr EXCEPT !.pc = "loop", !.j = @ + 1], fr.sum)

\* line 122 in call i
ParReturn(i) ==
    LET fr == frames[i]
    IN  /\ fr.pc = "loop"
        /\ fr.j >= fr.n
        /\ ParMove(i, [fr EXCEPT !.pc = "returned",
                                 !.ret = [kind |-> "return", exc |-> NoExc,
                                          val |-> store[AccSlot(i)]]])

NextPar ==
    \/ ParStart
    \/ \E i \in Calls : ParLinspace(i)
    \/ \E i \in Calls : ParWidth(i)
    \/ \E i \in Calls : ParInit(i)
    \/ \E i \in Calls : ParTerm(i)
    \/ \E i \in Calls : ParStore(i)
    \/ \E i \in Calls : ParReturn(i)

SpecPar == Init /\ [][NextPar]_vars

\* ----------------------------------------------------------------- claims
\* the midpoint rule as the text states it: midpoint a + j*dx + dx/2
RefWidth(lo, hi, cnt) == Div(Sub(hi, lo), Rat(cnt, 1))

RefMid(lo, width, jj) ==
    Add(Add(lo, Mul(Rat(jj, 1), width)), Div(width, Rat(2, 1)))

RECURSIVE RefSum(_, _, _, _)
\* the sum of the first k terms f(a + j*dx + dx/2) * dx, j = 0 .. k-1
RefSum(g, lo, width, k) ==
    IF k <= 0 THEN Zero
    ELSE Add(RefSum(g, lo, width, k - 1),
             Mul(FValue(g, RefMid(lo, width, k - 1)), width))

\* the call in progress has ended, by a return or by an exception
Ended == pc \in {"returned", "raised"}

LessEq(p, q) == p = q \/ Less(p, q)

Range(s) == {s[i] : i \in 1..Len(s)}

\* g is one of the polynomials: it neither raises nor returns NaN anywhere
IsPolynomial(g) == g.pole = {} /\ g.undef = {}

\* the statement of C1 whatever the arithmetic: the midpoints formed are
\* a + j*dx + dx/2, the value returned is the sum of f(a + j*dx + dx/2) * dx,
\* and with n >= 1 the call ends otherwise only when the integrand raises
MidpointSumHolds ==
    (Ended /\ n >= 1) =>
        /\ \A k \in 1..Len(evals) : evals[k] = RefMid(a, RefWidth(a, b, n), k - 1)
        /\ pc = "returned" =>
              /\ Len(evals) = n
              /\ ret.val = RefSum(f, a, RefWidth(a, b, n), n)
        /\ pc = "raised" => FRaises(f, evals[Len(evals)])

\* C1 as stated: for every f, a, b and n >= 1 integrate_midpoint returns
\* exactly the sum over j = 0 .. n-1 of f(a + j*dx + dx/2) * dx, dx = (b-a)/n,
\* and each midpoint (x[j] + x[j+1])/2 equals a + j*dx + dx/2.
C1_Original == MidpointSumHolds

\* C1, amended: in exact arithmetic, for every f, a, b and n >= 1, the value
\* integrate_midpoint returns is the sum over j = 0 .. n-1 of
\* f(a + j*dx + dx/2) * dx with dx = (b-a)/n, and each midpoint
\* (x[j] + x[j+1])/2 equals a + j*dx + dx/2.
C1_MidpointSum == exactArith => MidpointSumHolds

C1_Witness ==
    /\ exactArith
    /\ pc = "returned" /\ n = MaxN
    /\ IsFinite(a) /\ IsFinite(b) /\ Less(a, b)
    /\ f.c[3] = 1
    /\ ret.val # Zero

\* C2 as stated: for n <= 0 integrate_midpoint fails with an error, never
\* evaluates f and never returns a number.  Any exception is accepted here as
\* the InvalidArgument error.
C2_RejectsNonPositiveCount ==
    (pc # "none" /\ n <= 0) =>
        /\ evals = <<>>
        /\ pc # "returned"
        /\ ret.kind # "return"

\* C3 as stated: for n >= 1 and a non-finite bound a or b, integrate_midpoint
\* raises instead of evaluating f or returning a value.
C3_RejectsNonFiniteBounds ==
    (pc # "none" /\ n >= 1 /\ (~IsFinite(a) \/ ~IsFinite(b))) =>
        /\ evals = <<>>
        /\ pc # "returned"
        /\ ret.kind # "return"

\* the integrand raised at the last point it was evaluated at
FRaisedAtLast == Len(evals) > 0 /\ FRaises(f, evals[Len(evals)])

\* C4: when the integrand raises at the k-th midpoint, the call ends with that
\* same exception, which reaches the cell unchanged; no later midpoint is
\* evaluated (a raising evaluation is the last one) and no value is returned
\* or recorded for the call.
C4_IntegrandExcPropagates ==
    /\ \A k \in 1..Len(evals) : FRaises(f, evals[k]) => k = Len(evals)
    /\ (pc # "loop" /\ FRaisedAtLast) =>
          /\ ret = [kind |-> "raise", exc |-> FExc(evals[Len(evals)]), val |-> Zero]
          /\ j = Len(evals) - 1
          /\ pc \in {"raised", "none"}
          /\ pc = "none" =>
                /\ cpc = "failed"
                /\ raised = FExc(evals[Len(evals)])
                /\ Len(integrals) = Len(trace)
                /\ cell = "call" => integrals = <<>>
    /\ (pc = "loop" /\ FRaisedAtLast) => FALSE

C4_Witness ==
    /\ cpc = "failed"
    /\ raised.origin = "f"
    /\ Len(evals) >= 2
    /\ Len(evals) < n

\* C5 as stated, on the arguments the contract admits (n >= 1, finite bounds)
\* and when both calls return: the values v and w of the two calls satisfy
\* v == -w, and f was evaluated at the same set of midpoints.
C5_Original ==
    (/\ cell = "orientation" /\ cpc = "done"
     /\ n >= 1 /\ IsFinite(a) /\ IsFinite(b)) =>
        /\ PyEq(integrals[1], Neg(integrals[2]))
        /\ Range(trace[1]) = Range(trace[2])

\* C5, amended: in exact arithmetic, whenever integrate_midpoint(f, a, b, n)
\* returns, integrate_midpoint(f, b, a, n) returns too; the two values are
\* both NaN or one is the negation of the other, and for finite bounds f is
\* evaluated at the same set of midpoints.
C5_Orientation ==
    (exactArith /\ cell = "orientation") =>
        /\ cpc = "failed" => integrals = <<>>
        /\ cpc = "done" =>
              /\ integrals[2] = Neg(integrals[1])
              /\ (IsFinite(a) /\ IsFinite(b)) =>
                    Range(trace[1]) = Range(trace[2])

C5_Witness ==
    /\ exactArith
    /\ cell = "orientation" /\ cpc = "done"
    /\ n = MaxN
    /\ IsFinite(integrals[1]) /\ integrals[1] # Zero
    /\ f.c[3] = 1

C7_ExactOnLinear ==
    (/\ exactArith
     /\ Ended /\ n >= 1
     /\ IsFinite(a) /\ IsFinite(b)
     /\ IsPolynomial(f) /\ f.c[3] = 0) =>
        /\ pc = "returned"
        /\ ret.val = XAdd(XMul(Rat(f.c[2], 2), XSub(XMul(b, b), XMul(a, a))),
                          XMul(Rat(f.c[1], 1), XSub(b, a)))

C7_Witness ==
    /\ exactArith
    /\ pc = "returned" /\ n = MaxN
    /\ IsFinite(a) /\ IsFinite(b) /\ a # b
    /\ IsPolynomial(f) /\ f.c[3] = 0 /\ f.c[2] = 1
    /\ ret.val # Zero

\* (b-a)^3 / (24 n^2) * max |f''| for the polynomial g, whose second
\* derivative is the constant 2*c[3]
ErrorBound(g, lo, hi, cnt) ==
    LET w == XSub(hi, lo)
    IN  XMul(XDiv(XMul(w, XMul(w, w)), Rat(24 * cnt * cnt, 1)), Rat(2 * g.c[3], 1))

\* C8: in exact arithmetic, for a polynomial integrand, a < b and n >= 1, the
\* absolute error of integrate_midpoint is at most
\* (b-a)^3/(24 n^2) * max|f''|; in the convergence check every sample obeys
\* the bound and a sample with twice the count has a quarter of the error.
C8_ErrorBound ==
    /\ (/\ exactArith
        /\ pc = "returned" /\ n >= 1
        /\ IsFinite(a) /\ IsFinite(b) /\ Less(a, b)
        /\ IsPolynomial(f)) =>
           LessEq(AbsVal(XSub(ExactIntegral(f, a, b), ret.val)),
                  ErrorBound(f, a, b, n))
    /\ (/\ exactArith
        /\ cell = "sweep" /\ cpc \in {"fit", "done"}
        /\ Less(a, b) /\ IsPolynomial(f)
        /\ exact = ExactIntegral(f, a, b)) =>
           /\ \A i \in 1..Len(error) :
                 LessEq(error[i], ErrorBound(f, a, b, nvals[i]))
           /\ \A i, k \in 1..Len(error) :
                 nvals[k] = 2 * nvals[i] => XMul(Rat(4, 1), error[k]) = error[i]

C8_Witness ==
    /\ exactArith
    /\ cell = "sweep" /\ cpc = "done"
    /\ Less(a, b) /\ IsPolynomial(f) /\ f.c[3] = 1
    /\ exact = ExactIntegral(f, a, b)
    /\ \E i, k \in 1..Len(error) : nvals[k] = 2 * nvals[i] /\ error[k] # Zero

\* C9: the convergence check yields one (n, error) pair per n of nvals, in the
\* order of nvals: the i-th call is made with n = nvals[i], the i-th error is
\* |exact - integrals[i]|, and no error is negative.
C9_SampleSequence ==
    cell = "sweep" =>
        /\ cpc = "calling" => n = nvals[Len(integrals) + 1]
        /\ \A i \in 1..Len(trace) : Len(trace[i]) = nvals[i]
        /\ exactArith =>
              \A i \in 1..Len(integrals) :
                  integrals[i] = RefSum(f, a, RefWidth(a, b, nvals[i]), nvals[i])
        /\ cpc \in {"fit", "done"} =>
              /\ Len(error) = Len(nvals)
              /\ Len(integrals) = Len(nvals)
              /\ \A i \in 1..Len(error) :
                    /\ error[i] = AbsVal(Sub(exact, integrals[i]))
                    /\ ~Less(error[i], Zero)
        /\ cpc \notin {"fit", "done"} => error = <<>>

C9_Witness ==
    /\ cell = "sweep" /\ cpc = "done"
    /\ Len(nvals) = MaxN
    /\ \A i \in 1..Len(error) : IsFinite(error[i]) /\ error[i] # Zero
    /\ Less(exact, integrals[1])
    /\ error[1] # error[2]

\* C10: a sample whose error is zero or NaN stays in the sample sequence, and
\* the slope the convergence check reports is then NaN or infinite; no error
\* is raised.
C10_NoRecovery ==
    (/\ cell = "sweep" /\ cpc = "done"
     /\ \E i \in 1..Len(error) : error[i] = Zero \/ IsNaN(error[i])) =>
        /\ ~IsFinite(powerlaw_index)
        /\ Len(error) = Len(nvals)
        /\ raised = NoExc

C10_Witness ==
    /\ cell = "sweep" /\ cpc = "done"
    /\ \E i \in 1..Len(error) : error[i] = Zero
    /\ \E i, k \in 1..Len(error) :
          /\ i # k
          /\ IsFinite(error[i]) /\ error[i] # Zero
          /\ IsFinite(error[k]) /\ error[k] # Zero
    /\ ~IsFinite(powerlaw_index)

RECURSIVE TermSum(_, _, _, _)
\* the terms f(pts[1]) * dx, .., f(pts[k]) * dx added from the left to 0
TermSum(g, pts, width, k) ==
    IF k <= 0 THEN Zero
    ELSE Add(TermSum(g, pts, width, k - 1), Mul(FValue(g, pts[k]), width))

\* C12: for n >= 1 the accumulator starts at 0; f is evaluated once per
\* sub-interval in ascending order of j, the k-th evaluation at the midpoint
\* of sub-interval k-1; after k iterations the accumulator is the sum of the
\* first k terms; the loop counter never passes n; and the call of an
\* integrand that does not raise ends after exactly n evaluations by
\* returning the accumulator.
C12_LeftToRightSum ==
    (n >= 1 /\ pc \in {"loop", "returned", "raised"}) =>
        /\ 0 <= j /\ j <= n
        /\ \A k \in 1..Len(evals) : evals[k] = Midpoint(x, k - 1)
        /\ integral = TermSum(f, evals, dx, j)
        /\ pc = "loop" => Len(evals) = j
        /\ pc = "returned" =>
              /\ j = n /\ Len(evals) = n
              /\ ret = [kind |-> "return", exc |-> NoExc, val |-> integral]
        /\ pc = "raised" => (Len(evals) = j + 1 /\ FRaises(f, evals[j + 1]))

C12_Witness ==
    /\ ~exactArith
    /\ pc = "returned" /\ n = MaxN
    /\ IsFinite(a) /\ IsFinite(b) /\ a # b
    /\ f.c[3] = 1
    /\ Len(evals) = MaxN
    /\ ret.val # Zero
    /\ ret.val # TermSum(f, evals, dx, MaxN - 1)

\* p lies strictly between the bounds of the call, whichever is the smaller
StrictlyInside(p) ==
    \/ Less(a, p) /\ Less(p, b)
    \/ Less(b, p) /\ Less(p, a)

\* the points f was evaluated at are strictly inside the interval and no two
\* of them are equal; a returned call has evaluated n of them
InteriorDistinct ==
    (n >= 1 /\ pc \in {"loop", "returned", "raised"}
       /\ IsFinite(a) /\ IsFinite(b) /\ a # b) =>
        /\ \A k \in 1..Len(evals) : StrictlyInside(evals[k])
        /\ \A k, l \in 1..Len(evals) : k # l => evals[k] # evals[l]
        /\ pc = "returned" => Cardinality(Range(evals)) = n

\* C13 as stated: for a # b and n >= 1 every point at which f is evaluated
\* lies strictly between min(a, b) and max(a, b), and the n points are
\* pairwise distinct.
C13_Original == InteriorDistinct

\* C13: in exact arithmetic, for finite a # b and n >= 1, every point at
\* which f is evaluated lies strictly between min(a, b) and max(a, b), never
\* at a bound nor outside, and the n points are pairwise distinct.
C13_InteriorPoints == exactArith => InteriorDistinct

C13_Witness ==
    /\ exactArith
    /\ pc = "returned" /\ n = MaxN
    /\ a = NextAfterOne /\ b = Rat(1, 1)
    /\ Len(evals) = MaxN
    /\ Cardinality(Range(evals)) = MaxN

RECURSIVE SoloLoop(_, _, _, _, _)
\* lines 118-122 run without interruption from iteration jj with accumulator acc
SoloLoop(r, xs, width, jj, acc) ==
    IF jj >= r.n THEN [kind |-> "return", exc |-> NoExc, val |-> acc]
    ELSE IF FRaises(r.f, Midpoint(xs, jj))
         THEN OnIntegrandExc(FExc(Midpoint(xs, jj)), acc)
         ELSE SoloLoop(r, xs, width, jj + 1,
                       Accumulate(acc, FValue(r.f, Midpoint(xs, jj)), width))

\* how the call with arguments r ends when it runs alone
SoloRun(r) ==
    IF r.n + 1 < 0 THEN Raise(LinspaceExc)
    ELSE IF r.n = 0 THEN Raise(DivExc)
    ELSE SoloLoop(r, Linspace(r.a, r.b, r.n + 1), Width(r.a, r.b, r.n), 0, Zero)

\* C11: when two calls with arbitrary arguments are interleaved step by step,
\* the accumulator of each call is written by that call only, each call ends
\* as it ends when run alone, with the same value or the same exception, the
\* arguments of a call are what they were when it was entered, and the state
\* outside the two calls is what it was before them.
C11_NoSharedState ==
    /\ \A i \in Calls :
        /\ writers[AccSlot(i)] \subseteq {i}
        /\ frames[i].pc \in {"returned", "raised"} =>
              frames[i].ret = SoloRun(given[i])
        /\ frames[i].pc # "none" =>
              Args(frames[i].f, frames[i].a, frames[i].b, frames[i].n) = given[i]
    /\ (\E i \in Calls : frames[i].pc # "none") =>
        /\ cell = "none" /\ cpc = "idle" /\ pc = "none"
        /\ integrals = <<>> /\ trace = <<>> /\ ret = NoRet

\* call 2 has run to its end while call 1 was between reading its accumulator
\* and storing the new sum
C11_Witness ==
    /\ frames[1].pc = "store" /\ frames[1].j = 1
    /\ writers[AccSlot(1)] = {1}
    /\ frames[2].pc = "returned" /\ frames[2].n = MaxParN
    /\ writers[AccSlot(2)] = {2}
    /\ frames[2].ret.val # Zero
    /\ frames[2].ret.val # store[AccSlot(1)]

=============================================================================
